---------------------------- MODULE Spec2Model ----------------------------
(***************************************************************************)
(* Memory Sequence Game (src/memory/memorygame.py).                        *)
(*                                                                         *)
(* The model follows class Game: the state machine of Game.run, the round  *)
(* loop of Game.run_gameplay and the playback of Game.animate_sequence,    *)
(* together with the two things the program reads from its environment:    *)
(* the event queue returned by pygame.event.get() and the pointer position *)
(* returned by pygame.mouse.get_pos().  The program is single-threaded;    *)
(* it is cut into actions at the places where it reads the environment or  *)
(* where an animation lets wall-clock time pass (playback of one sequence  *)
(* element, the button-press animation), so that events can be posted      *)
(* while an animation is in flight.                                        *)
(***************************************************************************)
EXTENDS Integers, Sequences, FiniteSets, TLC

(***************************************************************************)
(* Program constants.                                                      *)
(***************************************************************************)
WIDTH == 800
HEIGHT == 600
BUTTON_SIZE == 150
BUTTON_PADDING == 30
MAX_BUTTONS == 10
\* user_input = None (line 329); button ids are 0..n-1, so -1 is free.
None == -1

(***************************************************************************)
(* Bounds of the model.                                                    *)
(***************************************************************************)
\* Most events pending at a time: posted, and not yet handled by the program.
MaxPending == 2
\* Longest sequence a session builds (rounds played per session).
MaxRounds == 2
\* The same for the long sessions of SpecScale, which grow the grid to its maximum.
GrowRounds == 20
\* Clicks recorded on one layout in SpecGrid.
MaxProbes == 2

(***************************************************************************)
(* Pointer positions pygame.mouse.get_pos() may return.  With the 4-cell   *)
(* grid                                                                    *)
(* (cells at x 235/415, y 135/315, size 150):                              *)
(*   <<310,260>>  cell 0, and the Normal button                            *)
(*   <<310,405>>  cell 2, and the Start, Fast and Restart buttons          *)
(*   <<10,10>>    no cell and no menu button                               *)
(***************************************************************************)
Points == { <<310, 260>>, <<310, 405>>, <<10, 10>> }

(***************************************************************************)
(* Pointer positions of the long sessions of SpecScale:                    *)
(*   <<250,190>>  cell 0 of the 4-, 6- and 8-cell grids, cell 1 of the     *)
(*                10-cell grid                                             *)
(*   <<100,100>>  cell 0 of the 10-cell grid, no cell of the smaller ones  *)
(*   <<480,405>>  the Start, Fast and Restart buttons; cell 3 of the       *)
(*                4-cell grid, no cell of the larger ones                  *)
(***************************************************************************)
ScalePoints == { <<250, 190>>, <<100, 100>>, <<480, 405>> }

\* Pointer positions of SpecGrid: a lattice over the window, 90 pixels apart.
ProbePoints == { <<40 + 90 * i, 30 + 90 * j>> : i \in 0..8, j \in 0..6 }

VARIABLES
    state,              \* self.state
    buttons,            \* self.buttons: sequence of [id, rect]
    sequence,           \* self.sequence
    user_sequence,      \* self.user_sequence
    score,              \* self.score
    num_buttons,        \* self.num_buttons
    difficulty,         \* self.difficulty
    display_speed,      \* self.display_speed
    fast_display_speed, \* self.fast_display_speed
    running,            \* run_gameplay's local 'running'
    idx,                \* run_gameplay's loop variable 'idx' (0-based)
    user_input,         \* run_gameplay's local 'user_input'
    shown,              \* animate_sequence: elements of the sequence highlighted so far
    batch,              \* the list returned by pygame.event.get(), from the event in hand on
    pc,                 \* where the program is
    queue               \* pygame's event queue: events posted and not yet polled

vars == << state, buttons, sequence, user_sequence, score, num_buttons, difficulty,
           display_speed, fast_display_speed, running, idx, user_input, shown,
           batch, pc, queue >>

game == << buttons, sequence, user_sequence, score, num_buttons >>
speeds == << difficulty, display_speed, fast_display_speed >>
locals == << running, idx, user_input, shown, batch >>

(***************************************************************************)
(* Rectangles and the button grid.                                         *)
(***************************************************************************)
Rect(x, y, w, h) == [x |-> x, y |-> y, w |-> w, h |-> h]

\* pygame.Rect.collidepoint: left and top edges inside, right and bottom outside.
collidepoint(r, p) ==
    /\ r.x <= p[1] /\ p[1] < r.x + r.w
    /\ r.y <= p[2] /\ p[2] < r.y + r.h

\* int(num_buttons ** 0.5)
IntSqrt(n) == CHOOSE k \in 0..n : k * k <= n /\ (k + 1) * (k + 1) > n

grid_cols(n) == IF IntSqrt(n) * IntSqrt(n) < n THEN IntSqrt(n) + 1 ELSE IntSqrt(n)

\* A variant that never adds the extra row.
grid_rows_square(n) == IntSqrt(n)

grid_rows(n) == IF grid_cols(n) * IntSqrt(n) < n THEN IntSqrt(n) + 1 ELSE IntSqrt(n)

total_width(n) == grid_cols(n) * BUTTON_SIZE + (grid_cols(n) - 1) * BUTTON_PADDING

total_height(n) == grid_rows(n) * BUTTON_SIZE + (grid_rows(n) - 1) * BUTTON_PADDING

\* A variant that forgets to halve the free width.
start_x_uncentred(n) == WIDTH - total_width(n)

start_x(n) == (WIDTH - total_width(n)) \div 2

start_y(n) == (HEIGHT - total_height(n)) \div 2

\* Button number i (0-based) of create_buttons(n).
Button(n, i) ==
    [id   |-> i,
     rect |-> Rect(start_x(n) + (i % grid_cols(n)) * (BUTTON_SIZE + BUTTON_PADDING),
                   start_y(n) + (i \div grid_cols(n)) * (BUTTON_SIZE + BUTTON_PADDING),
                   BUTTON_SIZE, BUTTON_SIZE)]

create_buttons(n) == [k \in 1..n |-> Button(n, k - 1)]

\* Button.is_clicked.  Button.scale stays 1.0 (start_hover is never called), so the
\* scaled rectangle is the rectangle rebuilt around its centre.
is_clicked(b, pos) ==
    collidepoint(Rect((b.rect.x + b.rect.w \div 2) - b.rect.w \div 2,
                      (b.rect.y + b.rect.h \div 2) - b.rect.h \div 2,
                      b.rect.w, b.rect.h), pos)

\* The loop 'for button in self.buttons: if button.is_clicked(pos): ... break':
\* the id of the first button holding pos, None when there is none.
HitButton(btns, pos) ==
    IF \E k \in 1..Len(btns) : is_clicked(btns[k], pos)
    THEN btns[CHOOSE k \in 1..Len(btns) :
                /\ is_clicked(btns[k], pos)
                /\ \A j \in 1..(k - 1) : ~is_clicked(btns[j], pos)].id
    ELSE None

\* The menu buttons.
start_button_rect == Rect(WIDTH \div 2 - 100, HEIGHT \div 2 + 50, 200, 60)
normal_button_rect == Rect(WIDTH \div 2 - 100, HEIGHT \div 2 - 50, 200, 60)
fast_button_rect == Rect(WIDTH \div 2 - 100, HEIGHT \div 2 + 50, 200, 60)
restart_button_rect == Rect(WIDTH \div 2 - 100, HEIGHT \div 2 + 100, 200, 60)

(***************************************************************************)
(* Events.  'posted' is the phase the program was in when the event was    *)
(* posted: "playback" while animate_sequence runs, "press" while a         *)
(* button-press animation runs, "other" otherwise.                         *)
(***************************************************************************)
QUIT == "QUIT"
MOUSEBUTTONDOWN == "MOUSEBUTTONDOWN"

Phase == IF pc = "animate" THEN "playback" ELSE IF pc = "press" THEN "press" ELSE "other"

IsQuit(e) == e.type = QUIT
IsClick(e) == e.type = MOUSEBUTTONDOWN

HasQuit(evs) == \E k \in 1..Len(evs) : IsQuit(evs[k])
HasClick(evs) == \E k \in 1..Len(evs) : IsClick(evs[k])

\* The events posted and not yet handled.
Pending == queue \o batch

(***************************************************************************)
(* Game.__init__                                                           *)
(***************************************************************************)
Init ==
    /\ state = "TITLE"
    /\ buttons = create_buttons(4)
    /\ sequence = << >>
    /\ user_sequence = << >>
    /\ score = 0
    /\ num_buttons = 4
    /\ difficulty = "Normal"
    /\ display_speed = 500
    /\ fast_display_speed = 100
    /\ running = TRUE
    /\ idx = 0
    /\ user_input = None
    /\ shown = 0
    /\ batch = << >>
    /\ pc = "run"
    /\ queue = << >>


(***************************************************************************)
(* The environment: the player clicks and closes the window.  The program  *)
(* reads no field of an event but its type; where the pointer is it asks   *)
(* pygame.mouse.get_pos(), and as the pointer moves freely between any two *)
(* reads, each read returns any of Points.                                 *)
(***************************************************************************)
PostClick ==
    /\ pc # "exited"
    /\ Len(queue) + Len(batch) < MaxPending
    /\ queue' = Append(queue, [type |-> MOUSEBUTTONDOWN, posted |-> Phase])
    /\ UNCHANGED << state, game, speeds, locals, pc >>

PostQuit ==
    /\ pc # "exited"
    /\ Len(queue) + Len(batch) < MaxPending
    /\ queue' = Append(queue, [type |-> QUIT, posted |-> Phase])
    /\ UNCHANGED << state, game, speeds, locals, pc >>

(***************************************************************************)
(* pygame.quit(); sys.exit()                                               *)
(***************************************************************************)
Exit ==
    /\ pc' = "exited"
    /\ queue' = << >>
    /\ batch' = << >>

(***************************************************************************)
(* The event loops of the three menu screens have one shape:               *)
(*     for event in pygame.event.get():                                    *)
(*         if event.type == pygame.QUIT: pygame.quit(); sys.exit()         *)
(*         if event.type == pygame.MOUSEBUTTONDOWN:                        *)
(*             pos = pygame.mouse.get_pos()                                *)
(*             if <button>.collidepoint(pos): <transition>; break          *)
(* 'hit' says whether the pointer is on a button of the screen.  The       *)
(* result is "quit", "hit" (the break: the rest of the list is dropped),   *)
(* or "none" (the list ran out).                                           *)
(***************************************************************************)
RECURSIVE MenuLoop(_, _)
MenuLoop(evs, hit) ==
    IF evs = << >> THEN "none"
    ELSE IF IsQuit(Head(evs)) THEN "quit"
    ELSE IF IsClick(Head(evs)) /\ hit THEN "hit"
    ELSE MenuLoop(Tail(evs), hit)

\* Game.run, one pass of 'while True' with self.state == "TITLE"; pos is what
\* pygame.mouse.get_pos() returns during the pass.
RunTitle(pos) ==
    /\ pc = "run" /\ state = "TITLE"
    /\ LET r == MenuLoop(queue, collidepoint(start_button_rect, pos)) IN
         IF r = "quit"
         THEN Exit /\ UNCHANGED state
         ELSE /\ state' = IF r = "hit" THEN "DIFFICULTY" ELSE state
              /\ queue' = << >>
              /\ UNCHANGED << pc, batch >>
    /\ UNCHANGED << game, speeds, running, idx, user_input, shown >>

\* A variant that takes a click beside both buttons for a third difficulty.
Choice_third(pos) ==
    IF collidepoint(normal_button_rect, pos) THEN "Normal"
    ELSE IF collidepoint(fast_button_rect, pos) THEN "Fast"
    ELSE "Hard"

\* The difficulty the pointer is on: Normal is tested first, then Fast.
Choice(pos) ==
    IF collidepoint(normal_button_rect, pos) THEN "Normal"
    ELSE IF collidepoint(fast_button_rect, pos) THEN "Fast"
    ELSE "none"

\* Game.run, one pass of 'while True' with self.state == "DIFFICULTY".
RunDifficulty(pos) ==
    /\ pc = "run" /\ state = "DIFFICULTY"
    /\ LET r == MenuLoop(queue, Choice(pos) # "none") IN
         IF r = "quit"
         THEN Exit /\ UNCHANGED << state, speeds >>
         ELSE /\ queue' = << >>
              /\ UNCHANGED << pc, batch >>
              /\ IF r = "hit"
                 THEN /\ difficulty' = Choice(pos)
                      /\ display_speed' = IF Choice(pos) = "Normal" THEN 500 ELSE 100
                      /\ fast_display_speed' = IF Choice(pos) = "Normal" THEN 100 ELSE 50
                      /\ state' = "GAME"
                 ELSE UNCHANGED << state, speeds >>
    /\ UNCHANGED << game, running, idx, user_input, shown >>

\* RunGameOver with a Restart that skips the title and difficulty screens.
RunGameOver_to_game(pos) ==
    /\ pc = "run" /\ state = "GAME_OVER"
    /\ LET r == MenuLoop(queue, collidepoint(restart_button_rect, pos)) IN
         IF r = "quit"
         THEN Exit /\ UNCHANGED state
         ELSE /\ state' = IF r = "hit" THEN "GAME" ELSE state
              /\ queue' = << >>
              /\ UNCHANGED << pc, batch >>
    /\ UNCHANGED << game, speeds, running, idx, user_input, shown >>

\* Game.run, one pass of 'while True' with self.state == "GAME_OVER".
RunGameOver(pos) ==
    /\ pc = "run" /\ state = "GAME_OVER"
    /\ LET r == MenuLoop(queue, collidepoint(restart_button_rect, pos)) IN
         IF r = "quit"
         THEN Exit /\ UNCHANGED state
         ELSE /\ state' = IF r = "hit" THEN "TITLE" ELSE state
              /\ queue' = << >>
              /\ UNCHANGED << pc, batch >>
    /\ UNCHANGED << game, speeds, running, idx, user_input, shown >>

(***************************************************************************)
(* Game.run_gameplay                                                       *)
(***************************************************************************)
\* reset_game that forgets to reset the score.
reset_game_keeps_score ==
    /\ sequence' = << >>
    /\ user_sequence' = << >>
    /\ score' = score
    /\ num_buttons' = 4
    /\ buttons' = create_buttons(4)

\* reset_game that keeps the sequence of the session before.
reset_game_keeps_sequence ==
    /\ sequence' = sequence
    /\ user_sequence' = << >>
    /\ score' = 0
    /\ num_buttons' = 4
    /\ buttons' = create_buttons(4)

\* Game.reset_game
reset_game ==
    /\ sequence' = << >>
    /\ user_sequence' = << >>
    /\ score' = 0
    /\ num_buttons' = 4
    /\ buttons' = create_buttons(4)

\* Game.run with self.state == "GAME" calls run_gameplay, which starts with
\* reset_game() and running = True.
StartGameplay ==
    /\ pc = "run" /\ state = "GAME"
    /\ reset_game
    /\ running' = TRUE
    /\ pc' = "round"
    /\ UNCHANGED << state, speeds, idx, user_input, shown, batch, queue >>

\* add_to_sequence that appends the drawn element twice.
add_to_sequence_twice(v) == sequence' = Append(Append(sequence, v), v)

\* add_to_sequence that puts the drawn element in front.
add_to_sequence_front(v) == sequence' = << v >> \o sequence

\* Game.add_to_sequence, v being random.randint(0, self.num_buttons - 1)
add_to_sequence(v) == sequence' = Append(sequence, v)

\* Top of 'while running': the grid is drawn, then one element is appended and the
\* playback starts.  The session is followed up to a sequence of 'limit' elements.
BeginRoundWithin(limit) ==
    /\ pc = "round"
    /\ Len(sequence) < limit
    /\ \E v \in 0..(num_buttons - 1) : add_to_sequence(v)
    /\ shown' = 0
    /\ pc' = "animate"
    /\ UNCHANGED << state, buttons, user_sequence, score, num_buttons, speeds, running,
                    idx, user_input, batch, queue >>

BeginRound == BeginRoundWithin(MaxRounds)

\* The delay animate_sequence holds on a highlighted button.
HighlightDelay == IF difficulty = "Fast" THEN fast_display_speed ELSE display_speed

\* animate_sequence that returns after the first highlight.
AnimateStep_first_only ==
    /\ pc = "animate"
    /\ shown < Len(sequence)
    /\ shown' = shown + 1
    /\ user_sequence' = << >>
    /\ idx' = 0
    /\ user_input' = None
    /\ pc' = "recall"
    /\ UNCHANGED << state, buttons, sequence, score, num_buttons, speeds, running,
                    batch, queue >>

\* Game.animate_sequence, one pass of 'for button_id in self.sequence': the button is
\* highlighted, held and un-highlighted; the event queue is not read.  After the last
\* element run_gameplay empties the user trace and starts the recall with idx 0.
AnimateStep ==
    /\ pc = "animate"
    /\ shown < Len(sequence)
    /\ shown' = shown + 1
    /\ IF shown + 1 = Len(sequence)
       THEN /\ user_sequence' = << >>
            /\ idx' = 0
            /\ user_input' = None
            /\ pc' = "recall"
       ELSE UNCHANGED << user_sequence, idx, user_input, pc >>
    /\ UNCHANGED << state, buttons, sequence, score, num_buttons, speeds, running,
                    batch, queue >>

\* The scan of a polled list without the hit test: every click is taken.
RECURSIVE Scan_any_click(_, _, _)
Scan_any_click(evs, btns, pos) ==
    IF evs = << >> THEN << >>
    ELSE IF IsQuit(Head(evs)) \/ IsClick(Head(evs))
    THEN evs
    ELSE Scan_any_click(Tail(evs), btns, pos)

\* The events of a polled list the recall loop passes over: a MOUSEBUTTONDOWN with
\* the pointer on no button changes nothing.  The result is the list from the first
\* event that does something (a QUIT, or a click with the pointer on a button) on.
RECURSIVE Scan(_, _, _)
Scan(evs, btns, pos) ==
    IF evs = << >> THEN << >>
    ELSE IF IsQuit(Head(evs)) \/ (IsClick(Head(evs)) /\ HitButton(btns, pos) # None)
    THEN evs
    ELSE Scan(Tail(evs), btns, pos)

\* Game.add_buttons(count=2)
AddOne(n) == IF n < MAX_BUTTONS THEN n + 1 ELSE n
\* A variant that adds one button instead of two.
add_buttons_once(n) == AddOne(n)
add_buttons(n) == AddOne(AddOne(n))

\* The end of a recalled round: 'self.score += 1' and the growth of the grid.
RoundCorrect ==
    /\ score' = score + 1
    /\ IF (score + 1) % 5 = 0 /\ num_buttons < MAX_BUTTONS
       THEN /\ num_buttons' = add_buttons(num_buttons)
            /\ buttons' = create_buttons(add_buttons(num_buttons))
       ELSE UNCHANGED << num_buttons, buttons >>

\* What follows the 'for event' loop once the polled list ran out, ui and run being
\* the values of user_input and running then: poll again while user_input is None;
\* leave run_gameplay for GAME_OVER when running is False (its locals end with the
\* call); otherwise go on to the next idx, or past the last one score the round and
\* start the next.
EndOfBatch(ui, run) ==
    /\ batch' = << >>
    /\ IF ui = None
       THEN /\ pc' = "recall"
            /\ user_input' = ui
            /\ running' = run
            /\ UNCHANGED << state, idx, score, num_buttons, buttons >>
       ELSE IF ~run
       THEN /\ state' = "GAME_OVER"
            /\ pc' = "run"
            /\ user_input' = None
            /\ running' = TRUE
            /\ idx' = 0
            /\ UNCHANGED << score, num_buttons, buttons >>
       ELSE IF idx + 1 < Len(sequence)
       THEN /\ idx' = idx + 1
            /\ user_input' = None
            /\ running' = run
            /\ pc' = "recall"
            /\ UNCHANGED << state, score, num_buttons, buttons >>
       ELSE /\ RoundCorrect
            /\ pc' = "round"
            /\ user_input' = ui
            /\ running' = run
            /\ UNCHANGED << state, idx >>

\* The 'for event in pygame.event.get()' loop of the recall, over the events evs
\* still to handle, with the pointer at pos: a QUIT exits; a click with the pointer
\* on a button starts that button's press animation with the rest of the list kept;
\* with no such event the list runs out.  ui and run are the values of user_input
\* and running so far, q is the event queue left behind.
HandleEvents(evs, pos, ui, run, q) ==
    LET rest == Scan(evs, buttons, pos) IN
      IF rest = << >>
      THEN EndOfBatch(ui, run) /\ queue' = q
      ELSE IF IsQuit(Head(rest))
      THEN /\ Exit
           /\ running' = run
           /\ user_input' = ui
           /\ UNCHANGED << state, idx, score, num_buttons, buttons >>
      ELSE /\ user_input' = HitButton(buttons, pos)
           /\ batch' = rest
           /\ running' = run
           /\ pc' = "press"
           /\ queue' = q
           /\ UNCHANGED << state, idx, score, num_buttons, buttons >>

\* 'while user_input is None: for event in pygame.event.get(): ...': one poll of the
\* event queue during the recall.
RecallPoll(pos) ==
    /\ pc = "recall"
    /\ HandleEvents(queue, pos, user_input, running, << >>)
    /\ UNCHANGED << sequence, user_sequence, speeds, shown >>

\* The check of a click that never ends the session.
StillRunning_lenient(ui, run) == run

\* 'if user_input != self.sequence[idx]: running = False'
StillRunning(ui, run) == IF ui # sequence[idx + 1] THEN FALSE ELSE run

\* The press animation of the click in hand (the head of batch) ends: the click is
\* appended to the user trace and checked against self.sequence[idx]; the inner
\* 'break' leaves 'for button' only, so the 'for event' loop goes on with the rest
\* of the polled list, the pointer then being at pos.
PressEnd(pos) ==
    /\ pc = "press"
    /\ user_sequence' = Append(user_sequence, user_input)
    /\ HandleEvents(Tail(batch), pos, user_input, StillRunning(user_input, running), queue)
    /\ UNCHANGED << sequence, speeds, shown >>

Next ==
    \/ PostClick
    \/ PostQuit
    \/ \E pos \in Points : RunTitle(pos)
    \/ \E pos \in Points : RunDifficulty(pos)
    \/ StartGameplay
    \/ BeginRound
    \/ AnimateStep
    \/ \E pos \in Points : RecallPoll(pos)
    \/ \E pos \in Points : PressEnd(pos)
    \/ \E pos \in Points : RunGameOver(pos)

Spec == Init /\ [][Next]_vars

(***************************************************************************)
(* Long sessions: the same program with a player who clicks once at a time *)
(* (one click posted when none is pending), followed for GrowRounds rounds *)
(* so that the grid grows to MAX_BUTTONS.                                  *)
(***************************************************************************)
PostClickIdle ==
    /\ Pending = << >>
    /\ PostClick

NextScale ==
    \/ PostClickIdle
    \/ \E pos \in ScalePoints : RunTitle(pos)
    \/ \E pos \in ScalePoints : RunDifficulty(pos)
    \/ StartGameplay
    \/ BeginRoundWithin(GrowRounds)
    \/ AnimateStep
    \/ \E pos \in ScalePoints : RecallPoll(pos)
    \/ \E pos \in ScalePoints : PressEnd(pos)
    \/ \E pos \in ScalePoints : RunGameOver(pos)

SpecScale == Init /\ [][NextScale]_vars

(***************************************************************************)
(* Properties.                                                             *)
(***************************************************************************)

\* C1: the state starts as TITLE and every change of it is one step of the cycle
\* TITLE -> DIFFICULTY -> GAME -> GAME_OVER -> TITLE: the first made by the title
\* loop handling a click with the pointer on Start, the second by the difficulty
\* loop handling a click with the pointer on Normal or Fast, the third by
\* run_gameplay ending, the fourth by the game-over loop handling a click with the
\* pointer on Restart.
C1_StateCycle ==
    /\ state = "TITLE"
    /\ [][state' # state =>
            \/ /\ state = "TITLE" /\ state' = "DIFFICULTY"
               /\ HasClick(queue)
               /\ \E pos \in Points :
                     collidepoint(start_button_rect, pos) /\ RunTitle(pos)
            \/ /\ state = "DIFFICULTY" /\ state' = "GAME"
               /\ HasClick(queue)
               /\ \E pos \in Points : Choice(pos) # "none" /\ RunDifficulty(pos)
            \/ /\ state = "GAME" /\ state' = "GAME_OVER"
               /\ pc \in {"recall", "press"} /\ pc' = "run"
            \/ /\ state = "GAME_OVER" /\ state' = "TITLE"
               /\ HasClick(queue)
               /\ \E pos \in Points :
                     collidepoint(restart_button_rect, pos) /\ RunGameOver(pos)
       ]_vars

\* A session was played to its end and Restart brought the game back to the title.
C1_Witness == state = "TITLE" /\ pc = "run" /\ Len(sequence) = 2 /\ score = 1

\* C2: every step by which Game.run enters run_gameplay is taken in state GAME and
\* lands in a fresh session: score 0, 4 cells, empty sequence and empty user trace.
Fresh ==
    /\ score = 0
    /\ num_buttons = 4
    /\ Len(buttons) = 4
    /\ sequence = << >>
    /\ user_sequence = << >>

C2_FreshSession ==
    [][(pc = "run" /\ pc' \notin {"run", "exited"}) => (state = "GAME" /\ pc' = "round" /\ Fresh')]_vars

\* A replay has just been entered: the session is fresh, and the playback position
\* left by the session before shows that two elements had been played (score 1).
C2_Witness == state = "GAME" /\ pc = "round" /\ Fresh /\ shown = 2

\* C3: whenever the score is incremented, the user trace is the sequence (same
\* length, same element at every index), and every click whose press animation is
\* in flight is compared at its own index in the trace (idx = the trace's length).
C3_ScoredTraceIsSequence ==
    [][ /\ (score' = score + 1 => user_sequence' = sequence')
        /\ (pc = "press" => idx = Len(user_sequence)) ]_vars

\* C4: once a click differs from the expected element (its press animation is in
\* flight, or running is already False), nothing is appended to the sequence and the
\* score does not change; the session is left for GAME_OVER (or the process exits)
\* after the press animations of the polled list, none of which gives a retry; and
\* throughout GAME_OVER the score stays the number of rounds before the failed one.
Failed ==
    /\ state = "GAME" /\ pc = "press"
    /\ (~running \/ user_input # sequence[idx + 1])

C4_NoRetry ==
    /\ [][ /\ Failed =>
                /\ sequence' = sequence /\ score' = score
                /\ \/ state' = "GAME_OVER" /\ pc' = "run"
                   \/ pc' = "exited"
                   \/ Failed' /\ (batch' = batch \/ Len(batch') < Len(batch))
           /\ state = "GAME_OVER" =>
                /\ sequence' = sequence /\ score' = score
                /\ state' \in {"GAME_OVER", "TITLE"} ]_vars
    /\ [](state = "GAME_OVER" => score = Len(sequence) - 1)

\* The game is over after one correct round and a wrong click in the second.
C4_Witness ==
    /\ state = "GAME_OVER" /\ score = 1 /\ Len(sequence) = 2
    /\ \E i \in 1..Len(user_sequence) : i <= 2 /\ user_sequence[i] # sequence[i]

\* C5: during every recall phase (polling, or a press animation in flight) the
\* sequence has score + 1 elements.
C5_RecallLength == pc \in {"recall", "press"} => Len(sequence) = score + 1

\* The recall of the second round, after one correct round.
C5_Witness == pc = "recall" /\ score = 1 /\ Len(sequence) = 2 /\ state = "GAME"

\* C6: the user trace is never longer than the sequence.
C6_TraceWithinSequence == Len(user_sequence) <= Len(sequence)

\* C7: after the first mismatching click of a round (running is False) no further
\* click of that round is appended to the user trace.
C7_NoInputAfterMismatch ==
    [][(state = "GAME" /\ pc = "press" /\ ~running) => user_sequence' = user_sequence]_vars

\* C8: a click posted while animate_sequence runs never adds an entry to the user
\* trace.
C8_PlaybackClicksIgnored ==
    [][(pc = "press" /\ Head(batch).posted = "playback") =>
            user_sequence' = user_sequence]_vars

\* C9: no QUIT is ever discarded: a QUIT posted and not yet handled stays pending
\* until the process exits.
C9_QuitNeverDiscarded ==
    [][HasQuit(Pending) => (pc' = "exited" \/ HasQuit(Pending'))]_vars

\* C10: once a QUIT has been posted during the playback or during a press
\* animation, no further element is highlighted, and the user trace, the score and
\* the state do not change any more.
QuitDuringAnimation ==
    \E k \in 1..Len(Pending) :
        IsQuit(Pending[k]) /\ Pending[k].posted \in {"playback", "press"}

C10_QuitUnwindsAtOnce ==
    [][QuitDuringAnimation =>
            /\ shown' # shown + 1
            /\ user_sequence' = user_sequence
            /\ score' = score
            /\ state' = state]_vars


(***************************************************************************)
(* C11: the cell count is determined by the score.  In every state of a    *)
(* session and of the game-over screen after it, num_buttons equals        *)
(* min(4 + 2 * floor(score / 5), MAX_BUTTONS) and the grid holds that many *)
(* cells: it grows by two at the scores 5, 10 and 15 and stays at 10 from  *)
(* then on; within a session it never decreases.                           *)
(***************************************************************************)
Min(a, b) == IF a < b THEN a ELSE b

CountForScore(sc) == Min(4 + 2 * (sc \div 5), MAX_BUTTONS)

CountMatchesScore ==
    /\ num_buttons = CountForScore(score)
    /\ Len(buttons) = num_buttons
    /\ num_buttons <= MAX_BUTTONS

InSession == pc \in {"round", "animate", "recall", "press"}

C11_CountFollowsScore ==
    /\ []CountMatchesScore
    /\ [][InSession => (num_buttons' >= num_buttons)]_vars

\* The score 20 is reached with the grid at its maximum (the cap held at a
\* multiple of five).
C11_Witness ==
    /\ score = 20
    /\ num_buttons = MAX_BUTTONS
    /\ Len(buttons) = MAX_BUTTONS

(***************************************************************************)
(* C12: while the sequence is played back, each highlight is held for the  *)
(* display delay of the selected difficulty: 500 ms for Normal and 100 ms  *)
(* for Fast.                                                               *)
(***************************************************************************)
C12_PlaybackDelay ==
    pc = "animate" =>
        /\ difficulty = "Normal" => HighlightDelay = 500
        /\ difficulty = "Fast" => HighlightDelay = 100

(***************************************************************************)
(* C13: the game is never in state GAME with a difficulty other than       *)
(* Normal or Fast (with the delays of that difficulty).  The only step     *)
(* from DIFFICULTY to GAME selects one of the two, and a pass of the       *)
(* difficulty screen with the pointer on neither button is rejected        *)
(* before the transition: it selects nothing and stays on the screen.      *)
(***************************************************************************)
Recognized ==
    \/ difficulty = "Normal" /\ display_speed = 500 /\ fast_display_speed = 100
    \/ difficulty = "Fast" /\ display_speed = 100 /\ fast_display_speed = 50

C13_OnlyNormalOrFast ==
    /\ [](state = "GAME" => Recognized)
    /\ [][state = "DIFFICULTY" /\ state' = "GAME" => difficulty' \in {"Normal", "Fast"}]_vars
    /\ [][(\E pos \in Points :
              Choice(pos) = "none" /\ ~HasQuit(queue) /\ RunDifficulty(pos))
           => state' = "DIFFICULTY" /\ UNCHANGED speeds]_vars

\* A session played with the difficulty that is not the initial one.
C13_Witness ==
    /\ state = "GAME" /\ pc = "animate"
    /\ difficulty = "Fast"

(***************************************************************************)
(* The layout on its own: create_buttons applied to every count from 1 to  *)
(* MAX_BUTTONS, and clicks hit-tested against the cells it returns.        *)
(***************************************************************************)
InitGrid ==
    /\ state = "GAME"
    /\ num_buttons \in 1..MAX_BUTTONS
    /\ buttons = create_buttons(num_buttons)
    /\ sequence = << >>
    /\ user_sequence = << >>
    /\ score = 0
    /\ difficulty = "Normal"
    /\ display_speed = 500
    /\ fast_display_speed = 100
    /\ running = TRUE
    /\ idx = 0
    /\ user_input = None
    /\ shown = 0
    /\ batch = << >>
    /\ pc = "grid"
    /\ queue = << >>

\* 'self.buttons = create_buttons(self.num_buttons)' for a count n.
Relayout(n) ==
    /\ pc = "grid"
    /\ num_buttons' = n
    /\ buttons' = create_buttons(n)
    /\ user_sequence' = << >>
    /\ user_input' = None
    /\ UNCHANGED << state, sequence, score, speeds, running, idx, shown, batch, pc, queue >>

\* A click with the pointer at pos on a cell: the hit test of the recall loop and
\* the append of the id it finds.
Probe(pos) ==
    /\ pc = "grid"
    /\ Len(user_sequence) < MaxProbes
    /\ HitButton(buttons, pos) # None
    /\ user_input' = HitButton(buttons, pos)
    /\ user_sequence' = Append(user_sequence, HitButton(buttons, pos))
    /\ UNCHANGED << state, buttons, sequence, score, num_buttons, speeds, running, idx,
                    shown, batch, pc, queue >>

NextGrid ==
    \/ \E n \in 1..MAX_BUTTONS : Relayout(n)
    \/ \E pos \in ProbePoints : Probe(pos)

SpecGrid == InitGrid /\ [][NextGrid]_vars

(***************************************************************************)
(* C14: for every count n from 1 to MAX_BUTTONS, create_buttons(n) returns *)
(* exactly n cells with the ids 0..n-1 laid out row-major (cell i in row   *)
(* i div cols, column i mod cols, rows top to bottom and columns left to   *)
(* right), no two cells overlap (a point lies in at most one cell), and    *)
(* the grid is the near-square one: cols * rows >= n, cols - rows is 0 or  *)
(* 1, and cols * (rows - 1) < n.                                           *)
(***************************************************************************)
Overlap(r, q) ==
    /\ r.x < q.x + q.w /\ q.x < r.x + r.w
    /\ r.y < q.y + q.h /\ q.y < r.y + r.h

Pitch == BUTTON_SIZE + BUTTON_PADDING

C14_LayoutShape ==
    LET n == num_buttons
        cols == grid_cols(n)
        rows == grid_rows(n)
    IN  /\ Len(buttons) = n
        /\ \A k \in 1..n : buttons[k].id = k - 1
        /\ \A k \in 1..n :
              /\ buttons[k].rect.x = buttons[1].rect.x + ((k - 1) % cols) * Pitch
              /\ buttons[k].rect.y = buttons[1].rect.y + ((k - 1) \div cols) * Pitch
        /\ \A i, j \in 1..n :
              i < j => \/ buttons[i].rect.y < buttons[j].rect.y
                       \/ /\ buttons[i].rect.y = buttons[j].rect.y
                          /\ buttons[i].rect.x < buttons[j].rect.x
        /\ \A i, j \in 1..n : i # j => ~Overlap(buttons[i].rect, buttons[j].rect)
        /\ \A p \in ProbePoints :
              Cardinality({ k \in 1..n : is_clicked(buttons[k], p) }) <= 1
        /\ cols * rows >= n
        /\ cols - rows \in {0, 1}
        /\ cols * (rows - 1) < n

\* The largest grid, with its last and its first cell clicked.
C14_Witness ==
    /\ pc = "grid"
    /\ num_buttons = MAX_BUTTONS
    /\ user_sequence = << MAX_BUTTONS - 1, 0 >>

(***************************************************************************)
(* C20: for every count n from 1 to MAX_BUTTONS every cell lies inside the *)
(* window (0 <= x, x + BUTTON_SIZE <= WIDTH, 0 <= y, y + BUTTON_SIZE <=    *)
(* HEIGHT) and the grid is centred: its left and right margins differ by   *)
(* at most one pixel, and so do its top and bottom margins.                *)
(***************************************************************************)
Lowest(S) == CHOOSE m \in S : \A e \in S : m <= e

Highest(S) == CHOOSE m \in S : \A e \in S : e <= m

Cells == 1..Len(buttons)

LeftMargin == Lowest({ buttons[k].rect.x : k \in Cells })

RightMargin == WIDTH - Highest({ buttons[k].rect.x + buttons[k].rect.w : k \in Cells })

TopMargin == Lowest({ buttons[k].rect.y : k \in Cells })

BottomMargin == HEIGHT - Highest({ buttons[k].rect.y + buttons[k].rect.h : k \in Cells })

C20_InsideAndCentred ==
    /\ \A k \in Cells :
          /\ 0 <= buttons[k].rect.x
          /\ buttons[k].rect.x + BUTTON_SIZE <= WIDTH
          /\ 0 <= buttons[k].rect.y
          /\ buttons[k].rect.y + BUTTON_SIZE <= HEIGHT
          /\ buttons[k].rect.w = BUTTON_SIZE
          /\ buttons[k].rect.h = BUTTON_SIZE
    /\ LeftMargin - RightMargin \in {-1, 0, 1}
    /\ TopMargin - BottomMargin \in {-1, 0, 1}

\* The widest and tallest grid (4 columns, 3 rows), which comes closest to the
\* edges of the window.
C20_Witness ==
    /\ pc = "grid"
    /\ Len(buttons) = MAX_BUTTONS
    /\ grid_cols(num_buttons) = 4 /\ grid_rows(num_buttons) = 3
    /\ LeftMargin = 55 /\ TopMargin = 45

(***************************************************************************)
(* C15: within a session the sequence is append-only.  Every change of     *)
(* self.sequence is either the append of exactly one element at the top of *)
(* a round, leaving the earlier elements as they were, or the emptying by  *)
(* reset_game at the start of a session.                                   *)
(***************************************************************************)
C15_AppendOnly ==
    [][sequence' # sequence =>
          \/ /\ pc = "round"
             /\ Len(sequence') = Len(sequence) + 1
             /\ SubSeq(sequence', 1, Len(sequence)) = sequence
          \/ /\ pc = "run" /\ state = "GAME" /\ pc' = "round"
             /\ sequence' = << >>]_vars

\* A second element has been appended behind a different first one.
C15_Witness ==
    /\ pc = "animate" /\ shown = 0
    /\ Len(sequence) = 2
    /\ sequence[1] # sequence[2]

(***************************************************************************)
(* C16: a round runs append, playback, recall in this order.  The round    *)
(* starts by appending exactly one element; then the elements are          *)
(* highlighted one at a time in sequence order, each once; the recall      *)
(* starts only after the last highlight, with the user trace emptied; and  *)
(* a click is accepted (a press starts, the trace grows) only from then    *)
(* on.                                                                     *)
(***************************************************************************)
C16_RoundPhases ==
    /\ [](pc = "animate" => shown < Len(sequence))
    /\ [](pc \in {"recall", "press"} => shown = Len(sequence))
    /\ [][pc = "round" /\ pc' # "round" =>
            /\ pc' = "animate" /\ shown' = 0
            /\ Len(sequence') = Len(sequence) + 1]_vars
    /\ [][pc = "animate" /\ shown' # shown =>
            shown' = shown + 1 /\ sequence' = sequence]_vars
    /\ [][pc = "animate" /\ pc' # "animate" =>
            /\ pc' = "recall" /\ shown' = Len(sequence)
            /\ user_sequence' = << >> /\ idx' = 0]_vars
    /\ [][pc # "press" /\ pc' = "press" => pc = "recall" /\ user_input' # None]_vars
    /\ [][user_sequence' # user_sequence /\ user_sequence' # << >> =>
            /\ pc = "press" /\ shown = Len(sequence)
            /\ user_sequence' = Append(user_sequence, user_input)]_vars

\* The first click of the second round is being accepted: both elements have been
\* highlighted and the trace is still empty.
C16_Witness ==
    /\ pc = "press" /\ idx = 0
    /\ Len(sequence) = 2 /\ shown = 2
    /\ user_sequence = << >>

(***************************************************************************)
(* C17: every element of the sequence is a valid cell index, 0 <= e <      *)
(* num_buttons, and num_buttons is the number of cells of the grid; also   *)
(* after the grid has been regenerated by add_buttons and after            *)
(* reset_game.                                                             *)
(***************************************************************************)
C17_ValidIndices ==
    /\ num_buttons = Len(buttons)
    /\ \A i \in 1..Len(sequence) : 0 <= sequence[i] /\ sequence[i] < num_buttons
    /\ \A k \in 1..Len(buttons) : buttons[k].id = k - 1

\* A grid that has grown, with an element in the sequence that only the grown grid
\* holds, being recalled.
C17_Witness ==
    /\ pc = "recall"
    /\ num_buttons > 4
    /\ \E i \in 1..Len(sequence) : sequence[i] >= 4

PostClickAt(p) ==
    /\ pc # "exited"
    /\ Len(queue) + Len(batch) < MaxPending
    /\ queue' = Append(queue, [type |-> MOUSEBUTTONDOWN, posted |-> Phase, pos |-> p])
    /\ UNCHANGED << state, game, speeds, locals, pc >>

NextClick ==
    \/ \E p \in Points : PostClickAt(p)
    \/ PostQuit
    \/ \E pos \in Points : RunTitle(pos)
    \/ \E pos \in Points : RunDifficulty(pos)
    \/ StartGameplay
    \/ BeginRound
    \/ AnimateStep
    \/ \E pos \in Points : RecallPoll(pos)
    \/ \E pos \in Points : PressEnd(pos)
    \/ \E pos \in Points : RunGameOver(pos)

SpecClick == Init /\ [][NextClick]_vars

(***************************************************************************)
(* C19: the cell recorded for a click is the cell that holds the point at  *)
(* which the click was made: whenever a click is taken in the recall, the  *)
(* id about to be appended to the user trace is the id of the cell whose   *)
(* bounds contain the click's own position, wherever the pointer is when   *)
(* the click is processed.                                                 *)
(***************************************************************************)
C19_ClickPointRecorded ==
    pc = "press" => user_input = HitButton(buttons, Head(batch).pos)

=============================================================================
